---- MODULE Spec2Model ----
(***************************************************************************)
(* Model of librootjavadaemon/src/main/jni/daemonize.cpp: the double-fork  *)
(* daemonization (fork_daemon), the execv retry loop of main, and          *)
(* sleep_ms.  Three processes take part: the original caller ("parent"),   *)
(* the first-generation child ("first") and the second-generation child    *)
(* ("second").  The kernel's process table, descriptor tables and session  *)
(* ids are explicit state; every library call is one atomic step.          *)
(***************************************************************************)
EXTENDS Integers, Sequences, FiniteSets, TLC

\* ---- program constants ----
STDIN_FILENO == 0
STDOUT_FILENO == 1
STDERR_FILENO == 2
EXIT_SUCCESS == 0
EXIT_FAILURE == 1
MaxAttempts == 16
RetryDelayMs == 16
InitPid == 1

\* ---- bounds of the model ----
MaxFd == 3
MaxStops == 1
MaxSec == 2
MaxLowMs == 3

Procs == {"parent", "first", "second"}

\* process ids handed out by the kernel; the launcher (a shell) has its own
pid == [p \in Procs |-> CASE p = "parent" -> 10 [] p = "first" -> 11 [] OTHER -> 12]
LauncherPid == pid["parent"] - 5

Fds == 0..MaxFd
StdFds == {STDIN_FILENO, STDOUT_FILENO, STDERR_FILENO}

NoStatus == [kind |-> "uninit", code |-> 0]

VARIABLES
    returnParent,   \* argument of fork_daemon
    ps,             \* process table: none, running, stopped, zombie, reaped
    pc,             \* position of each process in the code
    fds,            \* descriptor table of each process
    ppid, sid, pgid,\* parent, session and process group of each process
    child,          \* fork_daemon's local `child` in the parent (0: not set)
    devNull,        \* local `devNull` of the first child
    child2,         \* local `child2` of the first child
    waited, status, \* locals of the wait loop
    ret,            \* value fork_daemon returned to main, per process
    term,           \* how each process ended: [kind, code, site]
    image,          \* program image of each process
    i,              \* loop counter of main
    attempts,       \* execv calls made
    fails,          \* execv calls that returned
    sleeps,         \* sleep_ms calls made
    execvBy,        \* set of processes that ever called execv
    forks,          \* fork calls made
    stops,          \* stop signals delivered to the first child
    sleepArg, sleepElapsed, sleepIntr, sleepRet   \* last sleep_ms call

vars == <<returnParent, ps, pc, fds, ppid, sid, pgid, child, devNull, child2,
          waited, status, ret, term, image, i, attempts, fails, sleeps,
          execvBy, forks, stops, sleepArg, sleepElapsed, sleepIntr, sleepRet>>

procVars == <<ps, pc, fds, ppid, sid, pgid, term, image>>
sleepVars == <<sleepArg, sleepElapsed, sleepIntr, sleepRet>>
loopVars == <<i, attempts, fails, sleeps, execvBy>>


\* ---- descriptor tables (POSIX close, open, dup2) ----

\* close(fd): releases the slot; EBADF leaves the table alone
close(tbl, fd) ==
    IF fd \in Fds /\ tbl[fd] # "closed" THEN [tbl EXCEPT ![fd] = "closed"] ELSE tbl

\* open() returns the lowest descriptor number that is free, or -1
LowestFree(tbl) ==
    IF \E fd \in Fds : tbl[fd] = "closed"
    THEN CHOOSE fd \in Fds : tbl[fd] = "closed" /\ \A g \in Fds : g < fd => tbl[g] # "closed"
    ELSE -1

\* open("/dev/null", O_RDWR): ok says whether the device could be opened
open(tbl, ok) ==
    LET fd == LowestFree(tbl) IN
    IF ok /\ fd >= 0 THEN [fd |-> fd, tbl |-> [tbl EXCEPT ![fd] = "null"]]
    ELSE [fd |-> -1, tbl |-> tbl]

\* dup2(old, new): EBADF when old is not open, no-op when old = new
dup2(tbl, old, new) ==
    IF old \notin Fds \/ tbl[old] = "closed" THEN tbl
    ELSE IF old = new THEN tbl
    ELSE [tbl EXCEPT ![new] = tbl[old]]

\* ---- sleep_ms ----

\* nanosleep(&ts, &ts): when a signal interrupts it after t ms it fails with
\* EINTR and writes the unslept time back; otherwise it returns 0
nanosleep(ts, intr, t) ==
    IF intr
    THEN LET remMs == (ts.tv_sec * 1000 + ts.tv_nsec \div 1000000) - t IN
         [rv |-> -1, errno |-> "EINTR",
          rem |-> [tv_sec |-> remMs \div 1000, tv_nsec |-> (remMs % 1000) * 1000000]]
    ELSE [rv |-> 0, errno |-> "none", rem |-> ts]

sleep_ms_noclamp(ms, intr, t) ==
    LET ts == [tv_sec |-> ms \div 1000, tv_nsec |-> (ms % 1000) * 1000000]
        r == nanosleep(ts, intr, t)
    IN IF r.rv = -1 /\ r.errno = "EINTR"
       THEN (r.rem.tv_sec * 1000) + (r.rem.tv_nsec \div 1000000)
       ELSE 0

sleep_ms(ms, intr, t) ==
    LET ts == [tv_sec |-> ms \div 1000, tv_nsec |-> (ms % 1000) * 1000000]
        r == nanosleep(ts, intr, t)
    IN IF r.rv = -1 /\ r.errno = "EINTR"
       THEN LET ret0 == (r.rem.tv_sec * 1000) + (r.rem.tv_nsec \div 1000000)
            IN IF ret0 < 1 THEN 1 ELSE ret0
       ELSE 0

\* ---- sessions ----

\* setsid(): fails (EPERM) for a process group leader, else the caller
\* becomes leader of a new session and a new process group
setsid_noop(p, ids) == ids

setsid(p, ids) ==
    IF ids.pgid = pid[p] THEN ids ELSE [sid |-> pid[p], pgid |-> pid[p]]

\* ---- wait loop ----

WIFEXITED_orsignaled(st) == st.kind \in {"exited", "signaled"}

WIFEXITED(st) == st.kind = "exited"

\* waitpid(child, &status, 0): blocks while the child runs or is stopped,
\* reaps it once it has terminated, fails (ECHILD) when it is already gone
WaitpidReady(c) == \E q \in Procs : pid[q] = c /\ ps[q] \in {"zombie", "reaped"}

WaitpidResult(c) ==
    LET q == CHOOSE r \in Procs : pid[r] = c IN
    IF ps[q] = "zombie" /\ ppid[q] = pid["parent"]
    THEN [waited |-> c, status |-> [kind |-> term[q].kind, code |-> term[q].code], reaps |-> {q}]
    ELSE [waited |-> -1, status |-> status, reaps |-> {}]

\* the break condition of the while (true) loop
LoopBreak_anyreturn(w, c, st) == TRUE

LoopBreak_checkstatus(w, c, st) == (w = c) /\ WIFEXITED(st) /\ st.code = EXIT_SUCCESS

LoopBreak_waitedzero(w, c, st) == (w = 0) /\ WIFEXITED(st)

LoopBreak(w, c, st) == (w = c) /\ WIFEXITED(st)

\* the for loop's condition in main
LoopCond_offbyone(n) == n <= MaxAttempts

LoopCond(n) == n < MaxAttempts

\* ---- initial states ----

\* the launcher hands over its terminal on the standard streams, or starts
\* the program with standard input closed
InitFdTables ==
    { [fd \in Fds |-> IF fd = STDIN_FILENO THEN in
                      ELSE IF fd \in StdFds THEN "tty" ELSE "closed"]
      : in \in {"tty", "closed"} }

\* the caller is a member of the launcher's process group, leads its own
\* group (a shell job), or leads its own session
InitIds ==
    { [sid |-> LauncherPid, pgid |-> LauncherPid],
      [sid |-> LauncherPid, pgid |-> pid["parent"]],
      [sid |-> pid["parent"], pgid |-> pid["parent"]] }

NoTerm == [kind |-> "none", code |-> 0, site |-> "none"]

InitProc(tbl, ids) ==
    /\ ps = [p \in Procs |-> IF p = "parent" THEN "running" ELSE "none"]
    /\ pc = [p \in Procs |-> IF p = "parent" THEN "fork1" ELSE "none"]
    /\ fds = [p \in Procs |-> IF p = "parent" THEN tbl ELSE [fd \in Fds |-> "closed"]]
    /\ ppid = [p \in Procs |-> IF p = "parent" THEN LauncherPid ELSE 0]
    /\ sid = [p \in Procs |-> IF p = "parent" THEN ids.sid ELSE 0]
    /\ pgid = [p \in Procs |-> IF p = "parent" THEN ids.pgid ELSE 0]
    /\ term = [p \in Procs |-> NoTerm]
    /\ image = [p \in Procs |-> IF p = "parent" THEN "daemonize" ELSE "none"]
    /\ child = 0 /\ devNull = 0 /\ child2 = 0
    /\ waited = 0 /\ status = NoStatus
    /\ ret = [p \in Procs |-> <<>>]
    /\ i = 0 /\ attempts = 0 /\ fails = 0 /\ sleeps = 0
    /\ execvBy = {} /\ forks = 0 /\ stops = 0

Init ==
    /\ returnParent \in BOOLEAN
    /\ \E tbl \in InitFdTables, ids \in InitIds : InitProc(tbl, ids)
    /\ sleepArg = 0 /\ sleepElapsed = 0 /\ sleepIntr = FALSE /\ sleepRet = -1

\* ---- process creation and termination ----

Running(p) == ps[p] = "running"
Alive(p) == ps[p] \in {"running", "stopped"}
Terminated(p) == ps[p] \in {"zombie", "reaped"}

\* fork(): the child gets a copy of the descriptor table and the ids
Spawn(p, q, qpc) ==
    /\ ps' = [ps EXCEPT ![q] = "running"]
    /\ fds' = [fds EXCEPT ![q] = fds[p]]
    /\ ppid' = [ppid EXCEPT ![q] = pid[p]]
    /\ sid' = [sid EXCEPT ![q] = sid[p]]
    /\ pgid' = [pgid EXCEPT ![q] = pgid[p]]
    /\ image' = [image EXCEPT ![q] = image[p]]
    /\ forks' = forks + 1
    /\ UNCHANGED term

\* a process ends: it becomes a zombie and its children go to init
Terminate(p, kind, code, site) ==
    /\ ps' = [ps EXCEPT ![p] = "zombie"]
    /\ pc' = [pc EXCEPT ![p] = "done"]
    /\ term' = [term EXCEPT ![p] = [kind |-> kind, code |-> code, site |-> site]]
    /\ ppid' = [q \in Procs |->
                  IF ppid[q] = pid[p] /\ ps[q] \in {"running", "stopped", "zombie"}
                  THEN InitPid ELSE ppid[q]]

\* ---- fork_daemon, original caller ----

\* pid_t child = fork();  succeeded: the first child starts at close(0)
Fork1Ok ==
    /\ Running("parent") /\ pc["parent"] = "fork1"
    /\ Spawn("parent", "first", "close_stdin")
    /\ child' = pid["first"]
    /\ pc' = [pc EXCEPT !["parent"] = "waitpid", !["first"] = "close_stdin"]
    /\ UNCHANGED <<returnParent, devNull, child2, waited, status, ret,
                   loopVars, stops, sleepVars>>

\* fork() failed: if (child < 0) return -1;
Fork1Fail_exits ==
    /\ Running("parent") /\ pc["parent"] = "fork1"
    /\ child' = -1
    /\ forks' = forks + 1
    /\ Terminate("parent", "exited", EXIT_FAILURE, "fork_daemon")
    /\ UNCHANGED <<returnParent, fds, sid, pgid, image, devNull, child2, waited,
                   status, ret, loopVars, stops, sleepVars>>

Fork1Fail ==
    /\ Running("parent") /\ pc["parent"] = "fork1"
    /\ child' = -1
    /\ forks' = forks + 1
    /\ ret' = [ret EXCEPT !["parent"] = <<-1>>]
    /\ pc' = [pc EXCEPT !["parent"] = "main_check"]
    /\ UNCHANGED <<returnParent, ps, fds, ppid, sid, pgid, term, image, devNull,
                   child2, waited, status, loopVars, stops, sleepVars>>

\* one iteration of while (true) { waitpid(child, &status, 0); ... break; }
Waitpid ==
    /\ Running("parent") /\ pc["parent"] = "waitpid"
    /\ WaitpidReady(child)
    /\ LET r == WaitpidResult(child) IN
       /\ waited' = r.waited
       /\ status' = r.status
       /\ ps' = [q \in Procs |-> IF q \in r.reaps THEN "reaped" ELSE ps[q]]
       /\ pc' = [pc EXCEPT !["parent"] =
                    IF LoopBreak(r.waited, child, r.status) THEN "after_loop" ELSE "waitpid"]
    /\ UNCHANGED <<returnParent, fds, ppid, sid, pgid, child, devNull, child2, ret,
                   term, image, loopVars, forks, stops, sleepVars>>

\* if (!returnParent) exit(EXIT_SUCCESS);
ExitEagerly_inverted(rp) == rp

ExitEagerly(rp) == ~rp

AfterLoopExit ==
    /\ Running("parent") /\ pc["parent"] = "after_loop"
    /\ ExitEagerly(returnParent)
    /\ Terminate("parent", "exited", EXIT_SUCCESS, "fork_daemon")
    /\ UNCHANGED <<returnParent, fds, sid, pgid, child, devNull, child2, waited,
                   status, ret, image, loopVars, forks, stops, sleepVars>>

\* return 1; // success parent
AfterLoopReturn_zero ==
    /\ Running("parent") /\ pc["parent"] = "after_loop"
    /\ ~ExitEagerly(returnParent)
    /\ ret' = [ret EXCEPT !["parent"] = <<0>>]
    /\ pc' = [pc EXCEPT !["parent"] = "main_check"]
    /\ UNCHANGED <<returnParent, ps, fds, ppid, sid, pgid, child, devNull, child2,
                   waited, status, term, image, loopVars, forks, stops, sleepVars>>

AfterLoopReturn ==
    /\ Running("parent") /\ pc["parent"] = "after_loop"
    /\ ~ExitEagerly(returnParent)
    /\ ret' = [ret EXCEPT !["parent"] = <<1>>]
    /\ pc' = [pc EXCEPT !["parent"] = "main_check"]
    /\ UNCHANGED <<returnParent, ps, fds, ppid, sid, pgid, child, devNull, child2,
                   waited, status, term, image, loopVars, forks, stops, sleepVars>>

\* ---- fork_daemon, first child ----

FirstAt(l) == Running("first") /\ pc["first"] = l

FirstFdStep_inparent(l, tbl, next) ==
    /\ FirstAt(l)
    /\ fds' = [fds EXCEPT !["parent"] = tbl]
    /\ pc' = [pc EXCEPT !["first"] = next]
    /\ UNCHANGED <<returnParent, ps, ppid, sid, pgid, child, child2, waited, status,
                   ret, term, image, loopVars, forks, stops, sleepVars>>

FirstFdStep(l, tbl, next) ==
    /\ FirstAt(l)
    /\ fds' = [fds EXCEPT !["first"] = tbl]
    /\ pc' = [pc EXCEPT !["first"] = next]
    /\ UNCHANGED <<returnParent, ps, ppid, sid, pgid, child, child2, waited, status,
                   ret, term, image, loopVars, forks, stops, sleepVars>>

CloseStdin ==
    /\ FirstFdStep("close_stdin", close(fds["first"], STDIN_FILENO), "close_stdout")
    /\ UNCHANGED devNull

CloseStdout ==
    /\ FirstFdStep("close_stdout", close(fds["first"], STDOUT_FILENO), "close_stderr")
    /\ UNCHANGED devNull

CloseStderr ==
    /\ FirstFdStep("close_stderr", close(fds["first"], STDERR_FILENO), "open")
    /\ UNCHANGED devNull

\* int devNull = open("/dev/null", O_RDWR);
OpenDevNull ==
    \E ok \in BOOLEAN :
        LET r == open(fds["first"], ok) IN
        /\ FirstFdStep("open", r.tbl, "dup2_stdin")
        /\ devNull' = r.fd

Dup2Stdin ==
    /\ FirstFdStep("dup2_stdin", dup2(fds["first"], devNull, STDIN_FILENO), "dup2_stdout")
    /\ UNCHANGED devNull

Dup2Stdout ==
    /\ FirstFdStep("dup2_stdout", dup2(fds["first"], devNull, STDOUT_FILENO), "dup2_stderr")
    /\ UNCHANGED devNull

Dup2Stderr ==
    /\ FirstFdStep("dup2_stderr", dup2(fds["first"], devNull, STDERR_FILENO), "close_devnull")
    /\ UNCHANGED devNull

\* close(devNull);
CloseDevNull ==
    /\ FirstFdStep("close_devnull", close(fds["first"], devNull), "setsid")
    /\ UNCHANGED devNull

\* setsid();
SetSid ==
    /\ FirstAt("setsid")
    /\ LET ids == setsid("first", [sid |-> sid["first"], pgid |-> pgid["first"]]) IN
       /\ sid' = [sid EXCEPT !["first"] = ids.sid]
       /\ pgid' = [pgid EXCEPT !["first"] = ids.pgid]
    /\ pc' = [pc EXCEPT !["first"] = "fork2"]
    /\ UNCHANGED <<returnParent, ps, fds, ppid, child, devNull, child2, waited, status,
                   ret, term, image, loopVars, forks, stops, sleepVars>>

\* pid_t child2 = fork();  succeeded: the second child does return 0
Fork2Ok ==
    /\ FirstAt("fork2")
    /\ Spawn("first", "second", "main_check")
    /\ child2' = pid["second"]
    /\ ret' = [ret EXCEPT !["second"] = <<0>>]
    /\ pc' = [pc EXCEPT !["first"] = "exit_success", !["second"] = "main_check"]
    /\ UNCHANGED <<returnParent, child, devNull, waited, status, loopVars, stops,
                   sleepVars>>

\* fork() failed in the first child
Fork2Fail_exitsuccess ==
    /\ FirstAt("fork2")
    /\ child2' = -1
    /\ forks' = forks + 1
    /\ pc' = [pc EXCEPT !["first"] = "exit_success"]
    /\ UNCHANGED <<returnParent, ps, fds, ppid, sid, pgid, child, devNull, waited,
                   status, ret, term, image, loopVars, stops, sleepVars>>

Fork2Fail ==
    /\ FirstAt("fork2")
    /\ child2' = -1
    /\ forks' = forks + 1
    /\ pc' = [pc EXCEPT !["first"] = "exit_failure"]
    /\ UNCHANGED <<returnParent, ps, fds, ppid, sid, pgid, child, devNull, waited,
                   status, ret, term, image, loopVars, stops, sleepVars>>

\* exit(EXIT_SUCCESS);  // 1st child, fork ok
FirstExitSuccess_waits ==
    /\ FirstAt("exit_success")
    /\ Terminated("second")
    /\ Terminate("first", "exited", EXIT_SUCCESS, "fork_daemon")
    /\ UNCHANGED <<returnParent, fds, sid, pgid, child, devNull, child2, waited,
                   status, ret, image, loopVars, forks, stops, sleepVars>>

FirstExitSuccess ==
    /\ FirstAt("exit_success")
    /\ Terminate("first", "exited", EXIT_SUCCESS, "fork_daemon")
    /\ UNCHANGED <<returnParent, fds, sid, pgid, child, devNull, child2, waited,
                   status, ret, image, loopVars, forks, stops, sleepVars>>

\* exit(EXIT_FAILURE);  // 1st child, fork fail
FirstExitFailure ==
    /\ FirstAt("exit_failure")
    /\ Terminate("first", "exited", EXIT_FAILURE, "fork_daemon")
    /\ UNCHANGED <<returnParent, fds, sid, pgid, child, devNull, child2, waited,
                   status, ret, image, loopVars, forks, stops, sleepVars>>

\* ---- main ----

\* if (fork_daemon(0) == 0) { for (int i = 0; i < 16; ...) ... }
\* otherwise control reaches the end of main, which returns 0
MainEnters_notfailed(p) == ret[p] # <<-1>>

MainEnters(p) == ret[p] = <<0>>

MainCheckEnter_sleepfirst(p) ==
    /\ Running(p) /\ pc[p] = "main_check"
    /\ MainEnters(p)
    /\ i' = 0
    /\ pc' = [pc EXCEPT ![p] = IF LoopCond(0) THEN "sleep" ELSE "exit_failure"]
    /\ UNCHANGED <<returnParent, ps, fds, ppid, sid, pgid, child, devNull, child2,
                   waited, status, ret, term, image, attempts, fails, sleeps,
                   execvBy, forks, stops, sleepVars>>

MainCheckEnter(p) ==
    /\ Running(p) /\ pc[p] = "main_check"
    /\ MainEnters(p)
    /\ i' = 0
    /\ pc' = [pc EXCEPT ![p] = IF LoopCond(0) THEN "execv" ELSE "exit_failure"]
    /\ UNCHANGED <<returnParent, ps, fds, ppid, sid, pgid, child, devNull, child2,
                   waited, status, ret, term, image, attempts, fails, sleeps,
                   execvBy, forks, stops, sleepVars>>

MainCheckSkip(p) ==
    /\ Running(p) /\ pc[p] = "main_check"
    /\ ~MainEnters(p)
    /\ Terminate(p, "exited", 0, "main_return")
    /\ UNCHANGED <<returnParent, fds, sid, pgid, child, devNull, child2, waited,
                   status, ret, image, loopVars, forks, stops, sleepVars>>

\* execv(argv[1], &argv[1]) succeeded: same process, new image, no return
ExecvOk(p) ==
    /\ Running(p) /\ pc[p] = "execv"
    /\ attempts' = attempts + 1
    /\ execvBy' = execvBy \cup {p}
    /\ image' = [image EXCEPT ![p] = "target"]
    /\ pc' = [pc EXCEPT ![p] = "replaced"]
    /\ UNCHANGED <<returnParent, ps, fds, ppid, sid, pgid, child, devNull, child2,
                   waited, status, ret, term, i, fails, sleeps, forks, stops,
                   sleepVars>>

\* execv failed (EACCES or any other error) and returned
ExecvFail(p) ==
    /\ Running(p) /\ pc[p] = "execv"
    /\ attempts' = attempts + 1
    /\ execvBy' = execvBy \cup {p}
    /\ fails' = fails + 1
    /\ pc' = [pc EXCEPT ![p] = "sleep"]
    /\ UNCHANGED <<returnParent, ps, fds, ppid, sid, pgid, child, devNull, child2,
                   waited, status, ret, term, image, i, sleeps, forks, stops,
                   sleepVars>>

\* how a sleep of ms milliseconds can end: it completes, or a signal
\* interrupts it at its start or at its very end
SleepOutcomes(ms) == {[intr |-> FALSE, t |-> ms], [intr |-> TRUE, t |-> 0],
                      [intr |-> TRUE, t |-> ms]}

\* sleep_ms(16); i++; i < 16
Sleep_skiplast(p) ==
    /\ Running(p) /\ pc[p] = "sleep"
    /\ IF LoopCond(i + 1)
       THEN /\ \E o \in SleepOutcomes(RetryDelayMs) :
                 /\ sleepArg' = RetryDelayMs
                 /\ sleepIntr' = o.intr
                 /\ sleepElapsed' = o.t
                 /\ sleepRet' = sleep_ms(RetryDelayMs, o.intr, o.t)
            /\ sleeps' = sleeps + 1
       ELSE UNCHANGED <<sleepVars, sleeps>>
    /\ i' = i + 1
    /\ pc' = [pc EXCEPT ![p] = IF LoopCond(i + 1) THEN "execv" ELSE "exit_failure"]
    /\ UNCHANGED <<returnParent, ps, fds, ppid, sid, pgid, child, devNull, child2,
                   waited, status, ret, term, image, attempts, fails, execvBy,
                   forks, stops>>

Sleep(p) ==
    /\ Running(p) /\ pc[p] = "sleep"
    /\ \E o \in SleepOutcomes(RetryDelayMs) :
        /\ sleepArg' = RetryDelayMs
        /\ sleepIntr' = o.intr
        /\ sleepElapsed' = o.t
        /\ sleepRet' = sleep_ms(RetryDelayMs, o.intr, o.t)
    /\ sleeps' = sleeps + 1
    /\ i' = i + 1
    /\ pc' = [pc EXCEPT ![p] = IF LoopCond(i + 1) THEN "execv" ELSE "exit_failure"]
    /\ UNCHANGED <<returnParent, ps, fds, ppid, sid, pgid, child, devNull, child2,
                   waited, status, ret, term, image, attempts, fails, execvBy,
                   forks, stops>>

\* exit(EXIT_FAILURE);  // too many failures
MainExitFailure(p) ==
    /\ Running(p) /\ pc[p] = "exit_failure" /\ ret[p] = <<0>>
    /\ Terminate(p, "exited", EXIT_FAILURE, "main_exit")
    /\ UNCHANGED <<returnParent, fds, sid, pgid, child, devNull, child2, waited,
                   status, ret, image, loopVars, forks, stops, sleepVars>>

\* ---- environment: signals sent to the first child, init ----

SigStop ==
    /\ ps["first"] = "running" /\ stops < MaxStops
    /\ ps' = [ps EXCEPT !["first"] = "stopped"]
    /\ stops' = stops + 1
    /\ UNCHANGED <<returnParent, pc, fds, ppid, sid, pgid, child, devNull, child2,
                   waited, status, ret, term, image, loopVars, forks, sleepVars>>

SigCont ==
    /\ ps["first"] = "stopped"
    /\ ps' = [ps EXCEPT !["first"] = "running"]
    /\ UNCHANGED <<returnParent, pc, fds, ppid, sid, pgid, child, devNull, child2,
                   waited, status, ret, term, image, loopVars, forks, stops,
                   sleepVars>>

SigKill ==
    /\ ps["first"] \in {"running", "stopped"}
    /\ Terminate("first", "signaled", 9, "signal")
    /\ UNCHANGED <<returnParent, fds, sid, pgid, child, devNull, child2, waited,
                   status, ret, image, loopVars, forks, stops, sleepVars>>

\* init reaps the zombies it has adopted
InitReap ==
    \E q \in Procs :
        /\ ps[q] = "zombie" /\ ppid[q] = InitPid
        /\ ps' = [ps EXCEPT ![q] = "reaped"]
        /\ UNCHANGED <<returnParent, pc, fds, ppid, sid, pgid, child, devNull,
                       child2, waited, status, ret, term, image, loopVars, forks,
                       stops, sleepVars>>

\* ---- sleep_ms on its own ----

SleepInputs ==
    { s * 1000 + m : s \in 0..MaxSec,
                     m \in (0..MaxLowMs) \cup {999 - x : x \in 0..MaxLowMs} \cup {RetryDelayMs} }

ElapsedChoices(d) ==
    { t \in SleepInputs \cup {d - x : x \in 0..MaxLowMs} : 0 <= t /\ t <= d }

InitSleep ==
    /\ returnParent = FALSE
    /\ InitProc(CHOOSE tbl \in InitFdTables : tbl[STDIN_FILENO] = "tty",
                CHOOSE ids \in InitIds : ids.pgid = LauncherPid)
    /\ sleepArg \in SleepInputs
    /\ sleepElapsed \in ElapsedChoices(sleepArg)
    /\ sleepIntr \in BOOLEAN
    /\ sleepRet = -1

SleepCall ==
    /\ sleepRet = -1
    /\ sleepRet' = sleep_ms(sleepArg, sleepIntr, sleepElapsed)
    /\ UNCHANGED <<returnParent, procVars, child, devNull, child2, waited, status,
                   ret, loopVars, forks, stops, sleepArg, sleepElapsed, sleepIntr>>

\* ---- specifications ----

ParentDetach == Fork1Ok \/ Fork1Fail \/ Waitpid \/ AfterLoopExit \/ AfterLoopReturn

FirstStep ==
    \/ CloseStdin \/ CloseStdout \/ CloseStderr \/ OpenDevNull
    \/ Dup2Stdin \/ Dup2Stdout \/ Dup2Stderr \/ CloseDevNull
    \/ SetSid \/ Fork2Ok \/ Fork2Fail \/ FirstExitSuccess \/ FirstExitFailure

MainStep(p) ==
    \/ MainCheckEnter(p) \/ MainCheckSkip(p)
    \/ ExecvOk(p) \/ ExecvFail(p) \/ Sleep(p) \/ MainExitFailure(p)

Signal == SigStop \/ SigCont \/ SigKill

Next ==
    \/ ParentDetach
    \/ FirstStep
    \/ \E p \in Procs : MainStep(p)
    \/ Signal
    \/ InitReap

Spec == Init /\ [][Next]_vars

\* every process that can run is scheduled, a stopped process is continued
\* and init reaps
Fairness ==
    /\ WF_vars(ParentDetach \/ MainStep("parent"))
    /\ WF_vars(FirstStep)
    /\ WF_vars(MainStep("second"))
    /\ WF_vars(SigCont)
    /\ WF_vars(InitReap)

FairSpec == Spec /\ Fairness

SpecSleep == InitSleep /\ [][SleepCall]_vars

\* ---- properties ----

Fork1Succeeded == child > 0
Fork2Succeeded == child2 > 0
FirstExec(p) == pc[p] = "execv" /\ attempts = 0
LeftLoop == Fork1Succeeded /\ pc["parent"] \in {"after_loop", "main_check", "done"}
FirstHasExited == Terminated("first") /\ term["first"].kind = "exited"
InLoopCode(p) == pc[p] \in {"execv", "sleep", "replaced"} \/ (pc[p] = "exit_failure" /\ p # "first")
Max(a, b) == IF a >= b THEN a ELSE b

C2_ExitStatuses ==
    ~returnParent =>
        \A p \in Procs :
            term[p].kind = "exited" =>
                /\ (p = "parent" /\ child < 0) => term[p].code # 0
                /\ term[p].site = "main_exit" => term[p].code # 0
                /\ (p = "first" /\ child2 < 0) => term[p].code # 0
                /\ term[p].code = 0 =>
                       \/ p = "parent" /\ Fork1Succeeded /\ term[p].site = "fork_daemon"
                       \/ p = "first" /\ Fork2Succeeded

\* C3: only the second child gets 0 from fork_daemon and enters the loop;
\* the caller and the first child never call execv; at most two forks are
\* made, and none once the loop has started.
C3_OnlySecondProceeds ==
    /\ \A p \in Procs : ret[p] = <<0>> => p = "second"
    /\ \A p \in Procs : InLoopCode(p) => p = "second"
    /\ execvBy \subseteq {"second"}
    /\ forks <= 2
    /\ attempts > 0 => forks = 2

C3_Witness ==
    /\ execvBy = {"second"} /\ attempts = MaxAttempts
    /\ returnParent /\ ret["parent"] = <<1>> /\ Terminated("first")

\* C4: the caller is past its wait loop only if the first child has exited
\* and been reaped; a stop or continue of the child, or a waitpid that does
\* not report the child's exit, never ends the loop; once the child has
\* exited the loop ends.
C4_WaitLoop ==
    /\ [](LeftLoop => (ps["first"] = "reaped" /\ term["first"].kind = "exited"))
    /\ [][(pc["parent"] = "waitpid" /\ pc'["parent"] # "waitpid")
            => (waited' = child /\ WIFEXITED(status') /\ ps["first"] = "zombie"
                /\ term["first"].kind = "exited")]_vars
    /\ [][(ps'["first"] = "stopped" \/ ps["first"] = "stopped")
            => pc'["parent"] = pc["parent"]]_vars
    /\ ((Fork1Succeeded /\ FirstHasExited) ~> LeftLoop)

C4_Witness == pc["parent"] = "after_loop" /\ stops > 0 /\ FirstHasExited

\* C5: with returnParent = false and a successful first fork the caller
\* never returns from fork_daemon: it gets no return value, runs no code of
\* main after the call, and when it has ended it ended by exit(0) inside
\* fork_daemon.
C5_CallerNeverReturns ==
    (~returnParent /\ Fork1Succeeded) =>
        /\ ret["parent"] = <<>>
        /\ pc["parent"] \in {"waitpid", "after_loop", "done"}
        /\ Terminated("parent") =>
               term["parent"] = [kind |-> "exited", code |-> EXIT_SUCCESS,
                                 site |-> "fork_daemon"]

C5_Witness == ~returnParent /\ Fork1Succeeded /\ Terminated("parent")

\* C6 (as stated): once the caller has terminated in a run where both forks
\* succeeded, the first child is gone, the second child has init as parent,
\* and the second child is the one process of the program that still exists.
C6_DaemonOnlySurvivor ==
    (Fork2Succeeded /\ Terminated("parent")) =>
        /\ ps["first"] = "reaped" /\ term["first"].kind = "exited"
        /\ ppid["second"] = InitPid
        /\ Alive("second")

\* C6 (amended): in every run where both forks succeed the second child's
\* parent is never the launcher or the caller and eventually is init; once
\* the caller has terminated, the first child has exited and been reaped,
\* the second child has init as parent, and no process of the program other
\* than the second child still exists; the second child itself exists unless
\* it has ended with failure status after its last attempt.
C6_Reparented ==
    /\ [](Fork2Succeeded => ppid["second"] \notin {pid["parent"], LauncherPid})
    /\ []((Fork2Succeeded /\ Terminated("parent")) =>
            /\ ps["first"] = "reaped" /\ term["first"].kind = "exited"
            /\ ppid["second"] = InitPid
            /\ \A p \in Procs \ {"second"} : ~Alive(p)
            /\ (Alive("second") \/ term["second"].site = "main_exit"))
    /\ (Fork2Succeeded ~> ppid["second"] = InitPid)

C6_Witness ==
    /\ Fork2Succeeded /\ Terminated("parent") /\ ppid["second"] = InitPid
    /\ pc["second"] = "replaced"

\* C7: when execv fails every time the loop makes exactly 16 attempts,
\* whether or not a sleep was interrupted, and then exits with failure; the
\* counter i stays within 0..16.
C7_SixteenAttempts ==
    /\ i \in 0..MaxAttempts
    /\ attempts \in 0..MaxAttempts
    /\ \A p \in Procs :
         (pc[p] = "exit_failure" /\ p # "first") \/ term[p].site = "main_exit" =>
            /\ attempts = MaxAttempts /\ fails = MaxAttempts /\ i = MaxAttempts
            /\ image[p] = "daemonize"
    /\ \A p \in Procs :
         term[p].site = "main_exit" =>
            term[p].kind = "exited" /\ term[p].code = EXIT_FAILURE /\ term[p].code # 0

C7_Witness ==
    /\ term["second"].site = "main_exit" /\ attempts = MaxAttempts
    /\ sleepIntr /\ sleepRet >= 1

\* C8: when the first k attempts fail and attempt k+1 succeeds, exactly k+1
\* attempts are made (k is the value of i), the image is replaced in the
\* same process, and afterwards there is no further attempt, sleep or exit.
C8_ReplacedOnAttempt ==
    /\ [](\A p \in Procs :
            pc[p] = "replaced" =>
                /\ fails \in 0..(MaxAttempts - 1)
                /\ i = fails /\ attempts = fails + 1
                /\ image[p] = "target" /\ p = "second" /\ ppid[p] # 0
                /\ term[p] = NoTerm)
    /\ [][\A p \in Procs :
            pc[p] = "replaced" =>
                /\ pc'[p] = "replaced" /\ term'[p] = NoTerm
                /\ UNCHANGED <<attempts, sleeps, fails, i>>]_vars
    /\ [][\A p \in Procs :
            (pc[p] = "execv" /\ pc'[p] = "replaced") =>
                /\ image'[p] = "target" /\ ps'[p] = "running"
                /\ attempts' = fails + 1 /\ sleeps = fails]_vars

C8_Witness == pc["second"] = "replaced" /\ fails = 2 /\ attempts = 3

\* C9: the second child is never a session leader: the first child calls
\* setsid after rebinding the streams and before the second fork and leads
\* the new session; the second child is a member of that session, and its
\* session differs from the caller's.
C9_NotSessionLeader ==
    /\ pc["first"] \in {"close_stdin", "close_stdout", "close_stderr", "open",
                        "dup2_stdin", "dup2_stdout", "dup2_stderr",
                        "close_devnull", "setsid"}
         => (sid["first"] = sid["parent"] /\ ps["second"] = "none")
    /\ pc["first"] \in {"fork2", "exit_success", "exit_failure"}
         => (sid["first"] = pid["first"] /\ sid["first"] # sid["parent"])
    /\ ps["second"] # "none" =>
          /\ sid["second"] # pid["second"]
          /\ sid["second"] = pid["first"]
          /\ sid["second"] = sid["first"]
          /\ sid["second"] # sid["parent"]

C9_Witness ==
    /\ pc["second"] = "execv" /\ sid["second"] = pid["first"]
    /\ sid["parent"] = pid["parent"]

\* C10: sleep_ms(d) returns max(1, d - t) when interrupted after t of the d
\* milliseconds, and 0 when the sleep completes.
C10_SleepRemaining ==
    sleepRet # -1 =>
        /\ sleepIntr => (sleepRet = Max(1, sleepArg - sleepElapsed) /\ sleepRet # 0)
        /\ ~sleepIntr => sleepRet = 0

C10_Witness ==
    /\ sleepIntr /\ sleepArg >= 1000 /\ sleepElapsed = sleepArg /\ sleepRet = 1

\* C11: when the second fork fails the first child exits with failure
\* status, there is no second child and no execv is ever called; the caller
\* is not told: its wait loop still ends (unless a signal kills the first
\* child before it exits) and with returnParent = false it exits with 0.
C11_SecondForkFailure ==
    /\ [](child2 < 0 =>
            /\ ps["second"] = "none" /\ attempts = 0 /\ execvBy = {}
            /\ ret["parent"] # <<-1>>
            /\ term["first"].kind = "exited" => term["first"].code = EXIT_FAILURE
            /\ (Terminated("parent") /\ ~returnParent) =>
                   (term["parent"].kind = "exited" /\ term["parent"].code = 0))
    /\ (child2 < 0 ~> (LeftLoop \/ term["first"].kind = "signaled"))
    /\ ((child2 < 0 /\ LeftLoop /\ ~returnParent) ~> Terminated("parent"))

C11_Witness ==
    /\ child2 < 0 /\ ~returnParent /\ Terminated("parent")
    /\ term["parent"].code = 0 /\ term["first"].code = EXIT_FAILURE

\* C12: when the first fork fails fork_daemon returns -1 in the caller and
\* does nothing else: no child exists, the wait loop is not entered, the
\* caller's descriptors and session stay as they were, fork_daemon does not
\* end the process, and main calls no execv.
C12_FirstForkFailure ==
    /\ [](child < 0 =>
            /\ ret["parent"] = <<-1>>
            /\ ps["first"] = "none" /\ ps["second"] = "none" /\ forks = 1
            /\ waited = 0 /\ status = NoStatus
            /\ pc["parent"] \in {"main_check", "done"}
            /\ term["parent"].site \in {"none", "main_return"}
            /\ attempts = 0 /\ execvBy = {})
    /\ [][child' < 0 =>
            /\ fds'["parent"] = fds["parent"]
            /\ sid'["parent"] = sid["parent"]
            /\ pgid'["parent"] = pgid["parent"]]_vars

C12_Witness == child < 0 /\ ret["parent"] = <<-1>> /\ Terminated("parent")

\* C13: after a successful second fork the first child's exit(EXIT_SUCCESS)
\* is enabled whenever the child is running, whatever the second child does,
\* and the first child never waits: if it exited, it exited with success.
C13_FirstExitsUnconditionally ==
    /\ (Running("first") /\ pc["first"] = "exit_success") => ENABLED FirstExitSuccess
    /\ Fork2Succeeded => pc["first"] \in {"exit_success", "done"}
    /\ (Fork2Succeeded /\ term["first"].kind = "exited") =>
           (term["first"].code = EXIT_SUCCESS /\ term["first"].site = "fork_daemon")

C13_Witness ==
    /\ Running("first") /\ pc["first"] = "exit_success"
    /\ pc["second"] = "replaced"

\* C14: the caller's result depends only on the first child having exited:
\* whatever the child's exit status and whatever execv does, the caller
\* returns 1 (returnParent = true) or exits with 0 (returnParent = false).
C14_ResultIgnoresStatus ==
    /\ []((LeftLoop /\ pc["parent"] # "after_loop") =>
            /\ returnParent => ret["parent"] = <<1>>
            /\ ~returnParent =>
                   (ret["parent"] = <<>> /\ term["parent"].kind = "exited"
                    /\ term["parent"].code = 0))
    /\ ((Fork1Succeeded /\ FirstHasExited) ~>
           \/ returnParent /\ ret["parent"] = <<1>>
           \/ ~returnParent /\ Terminated("parent") /\ term["parent"].code = 0)

C14_Witness ==
    /\ ~returnParent /\ Terminated("parent") /\ term["parent"].code = 0
    /\ term["first"].kind = "exited" /\ term["first"].code = EXIT_FAILURE

\* C15: with returnParent = true fork_daemon never ends the caller; it
\* returns 1 there once the first child's exit was seen.  The results
\* identify the branch: 1 only in the caller after a successful first fork,
\* -1 only in the caller after a failed one, 0 only in the second child; the
\* first child never returns.
C15_ReturnValues ==
    /\ returnParent => term["parent"].site # "fork_daemon"
    /\ ret["first"] = <<>>
    /\ \A p \in Procs :
         /\ ret[p] \in {<<>>, <<0>>, <<1>>, <<-1>>}
         /\ ret[p] = <<1>> =>
                (p = "parent" /\ Fork1Succeeded /\ returnParent
                 /\ ps["first"] = "reaped" /\ term["first"].kind = "exited")
         /\ ret[p] = <<-1>> => (p = "parent" /\ child < 0)
         /\ ret[p] = <<0>> => p = "second"

C15_Witness == returnParent /\ ret["parent"] = <<1>> /\ ret["second"] = <<0>>

\* C16 (as stated): a run in which all 16 attempts fail has made exactly 15
\* sleeps when it exits with failure.
C16_FifteenSleeps ==
    \A p \in Procs : term[p].site = "main_exit" => sleeps = MaxAttempts - 1

\* C16 (amended): a sleep follows every failed attempt and nothing else: no
\* sleep precedes the first attempt, and a run in which all 16 attempts fail
\* has made exactly 16 sleeps, the last after the 16th failed attempt, when
\* it exits with failure.
C16_SleepAfterEveryFailure ==
    /\ sleeps = i
    /\ \A p \in Procs :
         /\ pc[p] = "sleep" => fails = sleeps + 1
         /\ pc[p] \in {"execv", "replaced"} => fails = sleeps
         /\ ((pc[p] = "exit_failure" /\ p # "first") \/ term[p].site = "main_exit") =>
                (sleeps = MaxAttempts /\ fails = MaxAttempts)

C16_Witness == term["second"].site = "main_exit" /\ sleeps = MaxAttempts

\* C17: only the first child changes descriptors or session: no step
\* changes the caller's descriptor table, session or group, and none changes
\* the second child's once it exists.
C17_OnlyFirstRebinds ==
    [][/\ fds'["parent"] = fds["parent"]
       /\ sid'["parent"] = sid["parent"] /\ pgid'["parent"] = pgid["parent"]
       /\ ps["second"] # "none" =>
             /\ fds'["second"] = fds["second"]
             /\ sid'["second"] = sid["second"] /\ pgid'["second"] = pgid["second"]]_vars

C17_Witness ==
    /\ Terminated("parent") /\ fds["parent"][STDOUT_FILENO] = "tty"
    /\ fds["first"][STDOUT_FILENO] = "null" /\ sid["first"] # sid["parent"]
    /\ pc["second"] = "replaced"

\* C18: under weak fairness, in a run where no signal stops or kills a
\* process, the caller eventually ends, the first child (if created)
\* eventually ends, and the second child (if created) eventually is replaced
\* by the target or ends with failure.
NoSignalSoFar == stops = 0 /\ term["first"].kind # "signaled"

AllComplete ==
    /\ pc["parent"] = "done"
    /\ ps["first"] = "none" \/ Terminated("first")
    /\ \/ ps["second"] = "none"
       \/ pc["second"] = "replaced"
       \/ Terminated("second") /\ term["second"].code = EXIT_FAILURE

C18_RunsToCompletion == <>(~NoSignalSoFar \/ AllComplete)

C18_Witness == NoSignalSoFar /\ AllComplete /\ Terminated("second")

\* C19: if a signal kills the first child the caller never leaves its wait
\* loop: the waitpid that reaps the child does not end the loop, every later
\* waitpid returns -1, and the caller neither exits nor returns.
C19_KilledChildHangsCaller ==
    /\ [](term["first"].kind = "signaled" =>
            /\ pc["parent"] = "waitpid" /\ ~LeftLoop
            /\ ~Terminated("parent") /\ ret["parent"] = <<>>
            /\ WaitpidReady(child)
            /\ ps["first"] = "reaped" => waited \in {child, -1})
    /\ [][(term["first"].kind = "signaled" /\ ps["first"] = "reaped"
           /\ waited' # waited) => waited' = -1]_vars

C19_Witness ==
    /\ term["first"].kind = "signaled" /\ ps["first"] = "reaped"
    /\ waited = -1 /\ pc["parent"] = "waitpid"
====
